---------------------------- MODULE Spec2Model ----------------------------
(***************************************************************************)
(* karmaMotor (src/karmaMotor/main.cpp): the RPC worker (respond and the   *)
(* actions push, push2, draw, draw2, findToolTip/moveTool), the stop       *)
(* thread (read -> interruptModule), the periodic updater (updateModule)   *)
(* and the endpoints they talk to.                                         *)
(*                                                                         *)
(* Units.  Lengths are millimetres, rotation-matrix entries are            *)
(* thousandths (a 4x4 transform is kept as 1000 * the double matrix),      *)
(* angles are degrees, durations are ticks of 1/14000 s (the unit in which *)
(* the trajectory-time interpolation of push is exact for every radius in  *)
(* whole millimetres).                                                     *)
(*                                                                         *)
(* The flag `interrupting` is a plain bool shared by three threads.  Each  *)
(* access is separated from the next by calls the compiler cannot see      *)
(* through, so a build reloads it at every test: reads and writes are      *)
(* modelled as interleaved atomic steps.                                   *)
(***************************************************************************)
EXTENDS Integers, Sequences, FiniteSets, TLC

VARIABLES
    interrupting,   \* bool interrupting
    pushHand,       \* string pushHand
    toolFrame,      \* Matrix toolFrame
    iCartCtrl,      \* ICartesianControl *iCartCtrl: "unset", "L" or "R"
    handUsed,       \* string handUsed
    shake_joint,    \* int shake_joint
    pc,             \* position of the RPC worker inside respond
    cmd,            \* the command being (or last) served
    reply,          \* the reply bottle of that command
    log,            \* the endpoint calls the worker issued for that command
    loc,            \* locals of the running action
    ctx,            \* per endpoint, the stored configuration tokens
    moving,         \* per arm, whether a commanded motion is still running
    handVel,        \* per hand, the joints left with a velocity command
    solver,         \* the external solver: [enabled, items]
    spc,            \* position of the stop thread inside interruptModule
    nstops,         \* stop requests received so far
    upc             \* position of the periodic updater

vars == <<interrupting, pushHand, toolFrame, iCartCtrl, handUsed, shake_joint,
          pc, cmd, reply, log, loc, ctx, moving, handVel, solver, spc, nstops, upc>>

(***************************************************************************)
(* Bounds of the model                                                     *)
(***************************************************************************)
\* stop requests in one behaviour
MaxStops == 1
\* samples one convergence window can hold in the model
MaxCnt == 22

(***************************************************************************)
(* Program constants                                                       *)
(***************************************************************************)
\* one second, in ticks of 1/14000 s
Second == 14000
\* 1.0 in the fixed-point scale of the transforms
One == 1000

(***************************************************************************)
(* Fixed-point helpers                                                     *)
(***************************************************************************)
Abs(a) == IF a < 0 THEN -a ELSE a

\* a / b rounded to the nearest integer, b > 0
Div(a, b) == IF a >= 0 THEN (2 * a + b) \div (2 * b)
                       ELSE -((2 * (-a) + b) \div (2 * b))

Idx == 1..4

\* yarp::math eye(4,4)
Eye4 == [i \in Idx |-> [j \in Idx |-> IF i = j THEN One ELSE 0]]

\* yarp::math operator*(Matrix, Matrix) on 4x4 transforms
MatMul(A, B) ==
    [i \in Idx |-> [j \in Idx |->
        Div(A[i][1] * B[1][j] + A[i][2] * B[2][j]
            + A[i][3] * B[3][j] + A[i][4] * B[4][j], One)]]

\* iCub::ctrl SE3inv: the rigid-body inverse (R^T, -R^T t)
SE3inv(T) ==
    [i \in Idx |-> [j \in Idx |->
        IF i = 4 THEN (IF j = 4 THEN One ELSE 0)
        ELSE IF j < 4 THEN T[j][i]
        ELSE -Div(T[1][i] * T[1][4] + T[2][i] * T[2][4] + T[3][i] * T[3][4], One)]]

\* integer square root, rounded down
ISqrt(n) == CHOOSE k \in 0..(n + 1) : k * k <= n /\ (k + 1) * (k + 1) > n

\* 1000 * cos and 1000 * sin of an angle given in degrees (multiples of 45)
CosTab == <<1000, 707, 0, -707, -1000, -707, 0, 707>>
Cos1000(deg) == CosTab[((deg % 360) \div 45) + 1]
Sin1000(deg) == Cos1000(deg - 90)


(***************************************************************************)
(* Angles                                                                  *)
(***************************************************************************)
\* _theta = CTRL_RAD2DEG * atan2(sin(theta_rad), cos(theta_rad)), in
\* millionths of a degree.  For |theta| <= 180 the doubles give theta back
\* (so -180 stays -180); beyond one turn the result is the wrapped angle
\* less one rounding error for theta > 180 and plus one for theta < -180
\* (e.g. 360 -> -1.4e-14, -360 -> +1.4e-14, 540 -> 179.99999999999997).
NormTheta(theta) ==
    LET m == theta % 360
        w == IF m > 180 THEN m - 360
             ELSE IF m = 180 /\ theta < 0 THEN -180 ELSE m
        e == IF theta > 180 THEN -1 ELSE IF theta < -180 THEN 1 ELSE 0
    IN  w * 1000000 + e

\* fabs(_theta - 90.0) < 45.0
SingularPlus(nt) == Abs(nt - 90 * 1000000) < 45 * 1000000
\* fabs(_theta + 90.0) < 45.0
SingularMinus(nt) == Abs(nt + 90 * 1000000) < 45 * 1000000

(***************************************************************************)
(* The tool frame (respond, cases tool and toop)                           *)
(***************************************************************************)
\* a variant of ToolAttachFrame that leaves the tip out of the frame
ToolAttachFrameNoTip(pt) == Eye4

\* axis2dcm(r) with r = (0,0,-1,atan2(-y,x)), then setCol(3,point):
\* the rotation about -z by atan2(-y,x) is [[x,-y,0],[y,x,0],[0,0,rho]]/rho
ToolAttachFrame(pt) ==
    LET x == pt[1]
        y == pt[2]
        rho == ISqrt(x * x + y * y)
        cx == IF rho = 0 THEN One ELSE Div(One * x, rho)
        sy == IF rho = 0 THEN 0 ELSE Div(One * y, rho)
    IN  << <<cx, -sy, 0, pt[1]>>,
           <<sy, cx, 0, pt[2]>>,
           <<0, 0, One, pt[3]>>,
           <<0, 0, 0, One>> >>

\* toolFrame.eye(); toolFrame.setCol(3,point)
ToopAttachFrame(pt) ==
    << <<One, 0, 0, pt[1]>>,
       <<0, One, 0, pt[2]>>,
       <<0, 0, One, pt[3]>>,
       <<0, 0, 0, One>> >>

(***************************************************************************)
(* Planning of push                                                        *)
(***************************************************************************)
\* H0: frame centred at c, x rightward, y forward, z upward
PushH0(c) ==
    << <<0, -One, 0, c[1]>>,
       <<One, 0, 0, c[2]>>,
       <<0, 0, One, c[3]>>,
       <<0, 0, 0, One>> >>

\* H1 (wrt H0): at (radius + extra) * [_c,_s], z-axis inward
PushH1(theta, radius, extra) ==
    LET co == Cos1000(theta)
        si == Sin1000(theta)
    IN  << <<-si, 0, -co, Div(radius * co, One) + Div(extra * co, One)>>,
           <<co, 0, -si, Div(radius * si, One) + Div(extra * si, One)>>,
           <<0, -One, 0, 0>>,
           <<0, 0, 0, One>> >>

\* H2 (wrt H0): at (radius + extra) * [_c,_s], z-axis outward
PushH2(theta, radius, extra) ==
    LET co == Cos1000(theta)
        si == Sin1000(theta)
    IN  << <<si, 0, co, Div(radius * co, One) + Div(extra * co, One)>>,
           <<-co, 0, si, Div(radius * si, One) + Div(extra * si, One)>>,
           <<0, -One, 0, 0>>,
           <<0, 0, 0, One>> >>

\* double epsilon=0.05
Epsilon == 50

\* the four candidate targets in the root frame, tool applied
PushCand(k, eps, c, theta, radius, frame) ==
    LET extra == IF eps THEN Epsilon ELSE 0
        H == IF k = 1 THEN PushH1(theta, radius, extra)
                      ELSE PushH2(theta, radius, extra)
    IN  MatMul(MatMul(PushH0(c), H), SE3inv(frame))

\* a variant of PushArm that looks at the centroid, not at the candidate
PushArmByCentroid(c, theta, radius, armType, frame) ==
    IF armType = "selectable" THEN (IF c[2] >= 0 THEN "R" ELSE "L")
    ELSE IF armType = "left" THEN "L" ELSE "R"

\* "choose the arm" of push
PushArm(c, theta, radius, armType, frame) ==
    IF armType = "selectable"
    THEN (IF PushCand(1, FALSE, c, theta, radius, frame)[2][4] >= 0
          THEN "R" ELSE "L")
    ELSE IF armType = "left" THEN "L" ELSE "R"

\* a variant of PushChoice that always compares the residuals
PushChoiceByResidual(theta, arm, d1, d2) == IF d1 < d2 THEN 1 ELSE 2

\* a variant of PushChoice that gives a tie to candidate 1
PushChoiceTieFirst(theta, arm, d1, d2) ==
    LET nt == NormTheta(theta)
    IN  IF SingularPlus(nt) THEN (IF arm = "R" THEN 1 ELSE 2)
        ELSE IF SingularMinus(nt) THEN (IF arm = "R" THEN 2 ELSE 1)
        ELSE IF d1 <= d2 THEN 1 ELSE 2

\* "compare solutions and choose the best": the candidate, 1 or 2
PushChoice(theta, arm, d1, d2) ==
    LET nt == NormTheta(theta)
    IN  IF SingularPlus(nt) THEN (IF arm = "R" THEN 1 ELSE 2)
        ELSE IF SingularMinus(nt) THEN (IF arm = "R" THEN 2 ELSE 1)
        ELSE IF d1 < d2 THEN 1 ELSE 2

\* "(increased radius)": whether the epsilon variant replaces the choice
PushUsesEps(theta, arm, k) ==
    \/ arm = "R" /\ NormTheta(theta) < 0 /\ k = 2
    \/ arm = "L" /\ NormTheta(theta) < 0 /\ k = 1

\* a variant of PushTarget that never takes the epsilon variant
PushTargetPlain(theta, arm, k) == <<k, FALSE>>

\* a variant of PushTarget that offsets whatever the sign of _theta
PushTargetAlways(theta, arm, k) ==
    IF (arm = "R" /\ k = 2) \/ (arm = "L" /\ k = 1) THEN <<k, TRUE>> ELSE <<k, FALSE>>

\* the pointers xd, od after the two ifs of "(increased radius)": the
\* candidate pointed to and whether it is its eps variant
PushTarget(theta, arm, k) ==
    IF arm = "R" /\ NormTheta(theta) < 0 /\ k = 2 THEN <<2, TRUE>>
    ELSE IF arm = "L" /\ NormTheta(theta) < 0 /\ k = 1 THEN <<1, TRUE>>
    ELSE <<k, FALSE>>

\* (fabs(theta)<10.0) || (fabs(theta-180.0)<10.0), on the angle as given
PushFast(theta) == Abs(theta) < 10 \/ Abs(theta - 180) < 10

\* "safe guard for using the tool": tmin*=1.3; tmax*=1.3
PushScaled(armType) == armType # "selectable"

\* tmin of the contact segment, in ticks
PushTmin(theta, armType) ==
    LET tmin0 == IF PushFast(theta) THEN (4 * Second) \div 10 ELSE (5 * Second) \div 10
    IN  IF PushScaled(armType) THEN (tmin0 * 13) \div 10 ELSE tmin0

\* tmax of the contact segment, in ticks
PushTmax(theta, armType) ==
    LET tmax0 == IF PushFast(theta) THEN (6 * Second) \div 10 ELSE (8 * Second) \div 10
    IN  IF PushScaled(armType) THEN (tmax0 * 13) \div 10 ELSE tmax0

\* rmin and rmax of both buckets, in mm
PushRmin == 40
PushRmax == 180

\* tmin+((tmax-tmin)/(rmax-rmin))*(radius-rmin), the slope being a whole
\* number of ticks per mm
PushLine(theta, radius, armType) ==
    PushTmin(theta, armType)
    + ((PushTmax(theta, armType) - PushTmin(theta, armType)) \div (PushRmax - PushRmin))
      * (radius - PushRmin)

\* a variant of PushTrajTime without the clamp
PushTrajTimeUnclamped(theta, radius, armType) == PushLine(theta, radius, armType)

\* trajTime of the contact segment of push, in ticks:
\* std::max(std::min(tmax,trajTime),tmin)
PushTrajTime(theta, radius, armType) ==
    LET t == PushLine(theta, radius, armType)
        lo == IF PushTmax(theta, armType) < t THEN PushTmax(theta, armType) ELSE t
    IN  IF lo > PushTmin(theta, armType) THEN lo ELSE PushTmin(theta, armType)


(***************************************************************************)
(* Arm selection of the other actions                                      *)
(***************************************************************************)
\* push2: the two ifs over armType and c[1]; any other name leaves
\* iCartCtrl as it was
Push2Arm(c, armType, cur) ==
    IF (armType = "selectable" /\ c[2] >= 0) \/ armType = "right" THEN "R"
    ELSE IF (armType = "selectable" /\ c[2] < 0) \/ armType = "left" THEN "L"
    ELSE cur

\* draw, "apply final axes": R as filled by the branch taken on the value
\* iCartCtrl has on entry; the two branches set the same three entries
DrawR(cur) ==
    IF cur = "R" THEN << <<-One, 0, 0>>, <<0, 0, -One>>, <<0, -One, 0>> >>
                 ELSE << <<-One, 0, 0>>, <<0, 0, -One>>, <<0, -One, 0>> >>

\* draw: xd1[1] of H0*H1 on the sagittal plane is radius*_c
DrawArm(theta, radius, armType) ==
    IF armType = "selectable"
    THEN (IF Div(radius * Cos1000(theta), One) >= 0 THEN "R" ELSE "L")
    ELSE IF armType = "left" THEN "L" ELSE "R"

\* draw, "recover the original place", for the identity tool frame: the y
\* of xd1 as sent, H(1,3)=H1(1,3)+c[1] with H1(1,3)=radius*_c; when c[1] is 0
\* the block is skipped and xd1[1] stays radius*_c
DrawSentY(c, theta, radius) ==
    IF c[2] # 0 THEN Div(radius * Cos1000(theta), One) + c[2]
                ELSE Div(radius * Cos1000(theta), One)

\* draw2: by the sign of c[1]
Draw2Arm(c, armType) ==
    IF armType = "selectable" THEN (IF c[2] >= 0 THEN "R" ELSE "L")
    ELSE IF armType = "left" THEN "L" ELSE "R"

(***************************************************************************)
(* The segment scripts of push, push2, draw and draw2                      *)
(***************************************************************************)
\* mov_time: rf.check("movTime",Value(1.0)), the default configuration
MovTime == Second

Fn(c) == CASE c.verb = "push" -> "push"
           [] c.verb = "pusp" -> "push2"
           [] c.verb \in {"draw", "vdra"} -> "draw"
           [] c.verb \in {"drap", "vdrp"} -> "draw2"
           [] OTHER -> "none"

\* a variant of Simulation that knows vdra only
SimulationDrawOnly(c) == c.verb = "vdra"

\* simulation = (cmd == vdra) resp. (cmd == vdrp)
Simulation(c) == c.verb \in {"vdra", "vdrp"}

\* number of if (!interrupting) { goToPoseSync; waitMotionDone } blocks
NSegs(fn) == IF fn \in {"push", "push2"} THEN 4 ELSE 3

\* third argument of the k-th goToPoseSync
SegDuration(fn, k, c, armType) ==
    CASE fn = "push"  -> IF k = 3 THEN PushTrajTime(c.theta, c.radius, armType)
                         ELSE Second
      [] fn = "push2" -> IF k = 3 THEN MovTime ELSE Second
      [] fn = "draw"  -> IF k = 1 THEN 2 * Second
                         ELSE IF k = 2 THEN (3 * Second) \div 2
                         ELSE (7 * Second) \div 2
      [] fn = "draw2" -> IF k = 1 THEN 2 * Second
                         ELSE IF k = 2 THEN (3 * Second) \div 2
                         ELSE MovTime

\* second argument of the k-th waitMotionDone
SegTimeout(fn, k) ==
    CASE fn \in {"push", "push2"} ->
             IF k <= 2 THEN 4 * Second
             ELSE IF k = 3 THEN 3 * Second ELSE 2 * Second
      [] OTHER -> 5 * Second

\* straightness weight given to tweakSet
Straightness(fn) == IF fn \in {"push", "push2"} THEN 10 ELSE 30

\* a variant of SegGuard whose retreat segment ignores the flag
SegGuardRetreat(k, flag) == k = 4 \/ ~flag

\* a variant of SegGuard that never skips the approach segment
SegGuardApproach(k, flag) == k = 2 \/ ~flag

\* a variant of SegGuard that never skips the contact segment
SegGuardContact(k, flag) == k = 3 \/ ~flag

\* if (!interrupting) in front of every segment
SegGuard(k, flag) == ~flag

(***************************************************************************)
(* Inputs                                                                  *)
(***************************************************************************)
\* (arm, eye) of the find requests
FindArgs == { <<"left", "left">>, <<"right", "right">>, <<"other", "left">> }

\* (verb, arm) of the attach requests
AttachArgs == { <<"tool", "left">>, <<"toop", "other">> }

\* (centroid, theta, radius, dist, pose) of the action requests
Args ==
    { [c |-> <<-300, 100, 0>>, theta |-> 0, radius |-> 100, dist |-> 100, pose |-> 0],
      [c |-> <<-300, -100, 0>>, theta |-> -90, radius |-> 100, dist |-> 100, pose |-> 1],
      [c |-> <<-300, 100, 0>>, theta |-> 180, radius |-> 0, dist |-> 100, pose |-> 1] }

NoArgs == [c |-> <<0, 0, 0>>, theta |-> 0, radius |-> 0, dist |-> 0, pose |-> 0]

\* tool tips given to tool/toop attach
ToolPoints == { <<0, 100, 50>> }

\* payload.size() needed by each verb
NeedParams(verb) ==
    CASE verb = "push" -> 5
      [] verb \in {"draw", "vdra", "pusp"} -> 6
      [] verb \in {"drap", "vdrp"} -> 7
      [] verb = "find" -> 2
      [] OTHER -> 0

MkCmd(verb, sub, n, arm, eye, a) ==
    [verb |-> verb, sub |-> sub, n |-> n, arm |-> arm, eye |-> eye,
     c |-> a.c, theta |-> a.theta, radius |-> a.radius, dist |-> a.dist,
     pose |-> a.pose]

ActionVerbs == {"push", "pusp", "draw", "vdra", "drap", "vdrp"}

\* the requests the RPC port can deliver
Commands ==
    {MkCmd(v, "none", NeedParams(v), "none", "none", a) :
        v \in ActionVerbs, a \in Args}
    \cup {MkCmd(v, "none", NeedParams(v) - 1, "none", "none", NoArgs) :
        v \in ActionVerbs \cup {"find"}}
    \cup {MkCmd("find", "none", 2, ae[1], ae[2], NoArgs) : ae \in FindArgs}
    \cup {MkCmd(va[1], "attach", 4, va[2], "none", [NoArgs EXCEPT !.c = pt]) :
        va \in AttachArgs, pt \in ToolPoints}
    \cup {MkCmd(v, "attach", 3, "left", "none", NoArgs) : v \in {"tool", "toop"}}
    \cup {MkCmd(v, sub, 0, "none", "none", NoArgs) :
        v \in {"tool", "toop"}, sub \in {"none", "get", "remove", "bogus"}}
    \cup {MkCmd("other", "none", 0, "none", "none", NoArgs)}

NoCmd == MkCmd("none", "none", 0, "none", "none", NoArgs)

Loc0 == [seg |-> 0, cand |-> 0, tgt |-> 0, eps |-> FALSE, rot |-> <<>>, d1 |-> 0, d2 |-> 0,
         tok |-> 0, gtok |-> 0, pose |-> 0, cnt |-> 0, sum |-> 0,
         done |-> FALSE, cur |-> 0, nItems |-> 0,
         res |-> 0, near1 |-> FALSE, near2 |-> FALSE, full |-> 0,
         seen |-> FALSE]

\* residuals dist(H - Hhat) the endpoint's askForPose can lead to
Residuals == {0, 20}

(***************************************************************************)
(* Initial state: after configure()                                        *)
(***************************************************************************)
Init ==
    /\ interrupting = FALSE
    /\ pushHand = "selectable"
    /\ toolFrame = Eye4
    /\ iCartCtrl = "unset"
    /\ handUsed = "null"
    /\ shake_joint = 0
    /\ pc = "idle"
    /\ cmd = NoCmd
    /\ reply = <<>>
    /\ log = <<>>
    /\ loc = Loc0
    /\ ctx = [e \in {"L", "R", "G"} |-> {}]
    /\ moving = [a \in {"L", "R"} |-> FALSE]
    /\ handVel = [h \in {"left", "right"} |-> {}]
    /\ solver = [enabled |-> FALSE, items |-> 0]
    /\ spc = "idle"
    /\ nstops = 0
    /\ upc = "idle"


(***************************************************************************)
(* Helpers of the actions                                                  *)
(***************************************************************************)
SetMax(S) == IF S = {} THEN 0 ELSE CHOOSE m \in S : \A x \in S : x <= m

\* storeContext(&context): a fresh id of the endpoint
NewTok(ep) == SetMax(ctx[ep]) + 1

\* one call record of the log: endpoint, call, two arguments
Call(ep, name, a, b) == <<ep, name, a, b>>

HandOf(arm) == IF arm = "L" THEN "left" ELSE "right"

\* a variant of DeleteContext that leaves the token stored
DeleteContextLeak(S, tok) == S

\* restoreContext(context); deleteContext(context): the tokens left stored
DeleteContext(S, tok) == S \ {tok}

\* respond after push/push2/draw/draw2 returned: reply.addVocab(ack) and,
\* for vdra/vdrp, reply.addDouble(res)
ActionReply(c, res) == IF Simulation(c) THEN <<"ack", res>> ELSE <<"ack">>

\* a variant of FindReply that answers nack when the solver gave no dimensions
FindReplyNoSolution(ok, sol) ==
    IF ok /\ Len(sol) > 1 THEN <<"ack">> \o Tail(sol) ELSE <<"nack">>

\* a variant of FindReply that acknowledges a find that failed
FindReplyAckFailure(ok, sol) == IF ok THEN <<"ack">> \o Tail(sol) ELSE <<"ack">>

\* a variant of FindReply that drops the solution
FindReplyAckOnly(ok, sol) == IF ok THEN <<"ack">> ELSE <<"nack">>

\* respond, case find: ack and solution.tail() if findToolTip returned true,
\* nack otherwise
FindReply(ok, sol) == IF ok THEN <<"ack">> \o Tail(sol) ELSE <<"nack">>

\* interrupting=false; return true;  -- the end of respond
Return ==
    /\ interrupting' = FALSE
    /\ pc' = "idle"

(***************************************************************************)
(* respond: dispatch                                                       *)
(***************************************************************************)
\* the switch of respond over command.get(0).asVocab() and payload.size()
Dispatch(c) ==
    CASE c.verb \in ActionVerbs -> IF c.n >= NeedParams(c.verb) THEN "begin" ELSE "reject"
      [] c.verb = "find" -> IF c.n >= 2 THEN "findBegin" ELSE "reject"
      [] c.verb \in {"tool", "toop"} -> "tool"
      [] OTHER -> "default"

\* a request arrives at the RPC port while the worker is free
AcceptFrom(S) ==
    /\ pc = "idle"
    /\ \E c \in S :
        /\ cmd' = c
        /\ pc' = Dispatch(c)
    /\ reply' = <<>>
    /\ log' = <<>>
    /\ loc' = Loc0
    /\ UNCHANGED <<interrupting, pushHand, toolFrame, iCartCtrl, handUsed, shake_joint,
                   ctx, moving, handVel, solver, spc, nstops, upc>>

Accept == AcceptFrom(Commands)

\* a case whose payload is too short: the body is skipped, the reply stays empty
Reject ==
    /\ pc = "reject"
    /\ Return
    /\ UNCHANGED <<pushHand, toolFrame, iCartCtrl, handUsed, shake_joint, cmd, reply,
                   log, loc, ctx, moving, handVel, solver, spc, nstops, upc>>

\* default: interrupting=false; return RFModule::respond(command,reply);
Default ==
    /\ pc = "default"
    /\ reply' = <<"lib">>
    /\ Return
    /\ UNCHANGED <<pushHand, toolFrame, iCartCtrl, handUsed, shake_joint, cmd,
                   log, loc, ctx, moving, handVel, solver, spc, nstops, upc>>

\* a variant of AttachAccepted that takes a payload of three fields
AttachAcceptedShort(n) == n >= 3

\* tool/toop attach: if (payload.size()>=4)
AttachAccepted(n) == n >= 4

\* cases tool and toop: attach, get, remove
ToolCmd ==
    /\ pc = "tool"
    /\ CASE cmd.sub = "attach" /\ AttachAccepted(cmd.n) ->
              /\ pushHand' = cmd.arm
              /\ toolFrame' = IF cmd.verb = "tool" THEN ToolAttachFrame(cmd.c)
                                                   ELSE ToopAttachFrame(cmd.c)
              /\ reply' = <<"ack">>
         [] cmd.sub = "get" ->
              /\ reply' = <<"ack", pushHand, toolFrame[1][4], toolFrame[2][4],
                            toolFrame[3][4]>>
              /\ UNCHANGED <<pushHand, toolFrame>>
         [] cmd.sub = "remove" ->
              /\ pushHand' = "selectable"
              /\ toolFrame' = Eye4
              /\ reply' = <<"ack">>
         [] OTHER -> UNCHANGED <<pushHand, toolFrame, reply>>
    /\ Return
    /\ UNCHANGED <<iCartCtrl, handUsed, shake_joint, cmd, log, loc, ctx, moving,
                   handVel, solver, spc, nstops, upc>>

(***************************************************************************)
(* push, push2, draw, draw2                                                *)
(***************************************************************************)
\* the arm the action resolves iCartCtrl to
SelectArm(c, armType, frame, cur) ==
    CASE Fn(c) = "push"  -> PushArm(c.c, c.theta, c.radius, armType, frame)
      [] Fn(c) = "push2" -> Push2Arm(c.c, armType, cur)
      [] Fn(c) = "draw"  -> DrawArm(c.theta, c.radius, armType)
      [] Fn(c) = "draw2" -> Draw2Arm(c.c, armType)

\* from the entry of the action to the first if (!interrupting): arm choice,
\* storeContext, tweakSet, getDOF/setDOF and, in push, the two askForPose
\* and the choice of the candidate.  push2 with a name other than
\* left/right/selectable before any action has set iCartCtrl calls through an
\* indeterminate pointer: the process dies or the pointer happens to be an arm.
Begin ==
    /\ pc = "begin"
    /\ LET sel == SelectArm(cmd, pushHand, toolFrame, iCartCtrl)
       IN \E arm \in (IF sel = "unset" THEN {"L", "R", "crash"} ELSE {sel}) :
          IF arm = "crash"
          THEN /\ pc' = "crashed"
               /\ UNCHANGED <<iCartCtrl, log, loc, ctx>>
          ELSE \E d1 \in Residuals, d2 \in Residuals :
               LET fn == Fn(cmd)
                   tok == NewTok(arm)
                   k == PushChoice(cmd.theta, arm, d1, d2)
                   pre == << Call(arm, "storeContext", tok, 0),
                             Call(arm, "tweakSet", Straightness(fn), 0),
                             Call(arm, "getDOF", 0, 0),
                             Call(arm, "setDOF", 0, 0) >>
                   ask == << Call(arm, "askForPose", 1, d1),
                             Call(arm, "askForPose", 2, d2) >>
               IN /\ (fn # "push" => d1 = 0 /\ d2 = 0)
                  /\ iCartCtrl' = arm
                  /\ ctx' = [ctx EXCEPT ![arm] = @ \cup {tok}]
                  /\ log' = IF fn = "push" THEN pre \o ask ELSE pre
                  /\ loc' = [loc EXCEPT
                               !.tok = tok, !.seg = 1, !.d1 = d1, !.d2 = d2,
                               !.rot = IF fn = "draw" THEN DrawR(iCartCtrl) ELSE <<>>,
                               !.cand = IF fn = "push" THEN k ELSE 0,
                               !.tgt = IF fn = "push"
                                       THEN PushTarget(cmd.theta, arm, k)[1] ELSE 0,
                               !.eps = fn = "push" /\ PushTarget(cmd.theta, arm, k)[2]]
                  /\ pc' = IF Simulation(cmd) THEN "sim" ELSE "segCheck"
    /\ UNCHANGED <<interrupting, pushHand, toolFrame, handUsed, shake_joint, cmd, reply,
                   moving, handVel, solver, spc, nstops, upc>>

\* where the worker goes after segment k
AfterSeg(k) == IF k >= NSegs(Fn(cmd)) THEN "release" ELSE "segCheck"

\* if (!interrupting) in front of segment loc.seg
SegCheck ==
    /\ pc = "segCheck"
    /\ IF SegGuard(loc.seg, interrupting)
       THEN /\ pc' = "segGo"
            /\ loc' = loc
       ELSE /\ pc' = AfterSeg(loc.seg)
            /\ loc' = [loc EXCEPT !.seg = @ + 1, !.seen = TRUE]
    /\ UNCHANGED <<interrupting, pushHand, toolFrame, iCartCtrl, handUsed, shake_joint,
                   cmd, reply, log, ctx, moving, handVel, solver, spc, nstops, upc>>

\* iCartCtrl->goToPoseSync(x,o,t) of segment loc.seg
SegGo ==
    /\ pc = "segGo"
    /\ log' = Append(log, Call(iCartCtrl, "goToPoseSync", loc.seg,
                               SegDuration(Fn(cmd), loc.seg, cmd, pushHand)))
    /\ moving' = [moving EXCEPT ![iCartCtrl] = TRUE]
    /\ pc' = "segWait"
    /\ UNCHANGED <<interrupting, pushHand, toolFrame, iCartCtrl, handUsed, shake_joint,
                   cmd, reply, loc, ctx, handVel, solver, spc, nstops, upc>>

\* iCartCtrl->waitMotionDone(0.1,timeout): returns true when the motion is
\* over, false when the timeout expires first; the result is discarded
SegWait ==
    /\ pc = "segWait"
    /\ log' = Append(log, Call(iCartCtrl, "waitMotionDone",
                               SegTimeout(Fn(cmd), loc.seg),
                               IF moving[iCartCtrl] THEN 0 ELSE 1))
    /\ pc' = AfterSeg(loc.seg)
    /\ loc' = [loc EXCEPT !.seg = @ + 1]
    /\ UNCHANGED <<interrupting, pushHand, toolFrame, iCartCtrl, handUsed, shake_joint,
                   cmd, reply, ctx, moving, handVel, solver, spc, nstops, upc>>

\* what askForPose can answer in a simulated draw: the residual
\* |e_x|+|e_o| (thousandths) and whether norm(xdhat) < 0.15
AskReplies == { [err |-> 0, near |-> FALSE], [err |-> 0, near |-> TRUE],
                [err |-> 20, near |-> FALSE] }

\* nearness_penalty: draw tests both waypoints, draw2 the second only
NearnessPenalty(fn, a1, a2) ==
    IF fn = "draw" THEN (IF a1.near \/ a2.near THEN 10 * One ELSE 0)
                   ELSE (IF a2.near THEN 10 * One ELSE 0)

\* if (simulation): two askForPose and the quality of the action
Simulate ==
    /\ pc = "sim"
    /\ \E a1 \in AskReplies, a2 \in AskReplies :
        /\ log' = log \o << Call(iCartCtrl, "askForPose", 1, a1.err),
                            Call(iCartCtrl, "askForPose", 2, a2.err) >>
        /\ loc' = [loc EXCEPT !.res = a1.err + a2.err
                                      + NearnessPenalty(Fn(cmd), a1, a2),
                              !.d1 = a1.err, !.d2 = a2.err,
                              !.near1 = a1.near, !.near2 = a2.near]
    /\ pc' = "release"
    /\ UNCHANGED <<interrupting, pushHand, toolFrame, iCartCtrl, handUsed, shake_joint,
                   cmd, reply, ctx, moving, handVel, solver, spc, nstops, upc>>

\* restoreContext(context); deleteContext(context); back in respond:
\* reply.addVocab(ack) and, for vdra/vdrp, reply.addDouble(res)
Release ==
    /\ pc = "release"
    /\ log' = log \o << Call(iCartCtrl, "restoreContext", loc.tok, 0),
                        Call(iCartCtrl, "deleteContext", loc.tok, 0) >>
    /\ ctx' = [ctx EXCEPT ![iCartCtrl] = DeleteContext(@, loc.tok)]
    /\ reply' = ActionReply(cmd, loc.res)
    /\ pc' = "end"
    /\ UNCHANGED <<interrupting, pushHand, toolFrame, iCartCtrl, handUsed, shake_joint,
                   cmd, loc, moving, handVel, solver, spc, nstops, upc>>

\* break; interrupting=false; return true;
End ==
    /\ pc = "end"
    /\ Return
    /\ UNCHANGED <<pushHand, toolFrame, iCartCtrl, handUsed, shake_joint, cmd, reply,
                   log, loc, ctx, moving, handVel, solver, spc, nstops, upc>>


(***************************************************************************)
(* findToolTip and moveTool                                                *)
(***************************************************************************)
\* number of exploration poses ("point 1" .. "point 6")
NPoses == 6

\* a variant of Quota with the same count for every pose
QuotaFlat(p) == 25

\* maxItems handed to moveTool for each pose
Quota(p) == IF p = 6 THEN 50 ELSE 25

\* shake_joint during each pose
ShakeJointOf(p) == IF p = 6 THEN 6 ELSE 4

\* vertical pixel coordinates the vision port can deliver; within one
\* window the model keeps the tool tip where the first sample saw it
FeedY == {70, 200}

\* what the solver can answer to find
SolverReplies == { <<"ack", 10, 20, 30>>, <<"nack">> }

\* findToolTip up to the first moveTool: arm check, storeContext on the arm
\* and the gaze, getDOF/setDOF, clear and select to the solver
FindBegin ==
    /\ pc = "findBegin"
    /\ IF cmd.arm \notin {"left", "right"}
       THEN /\ reply' = FindReply(FALSE, <<>>)
            /\ Return
            /\ UNCHANGED <<iCartCtrl, shake_joint, log, loc, ctx, solver>>
       ELSE LET arm == IF cmd.arm = "left" THEN "L" ELSE "R"
                tok == NewTok(arm)
                gtok == NewTok("G")
            IN /\ iCartCtrl' = arm
               /\ ctx' = [ctx EXCEPT ![arm] = @ \cup {tok}, !["G"] = @ \cup {gtok}]
               /\ log' = << Call(arm, "storeContext", tok, 0),
                            Call("G", "storeContext", gtok, 0),
                            Call(arm, "getDOF", 0, 0),
                            Call(arm, "setDOF", 0, 0),
                            Call("S", "clear", 0, 0),
                            Call("S", "select", cmd.arm, cmd.eye) >>
               /\ solver' = [solver EXCEPT !.items = 0]
               /\ loc' = [loc EXCEPT !.tok = tok, !.gtok = gtok, !.pose = 1]
               /\ pc' = "mtStart"
               /\ UNCHANGED <<interrupting, reply, shake_joint>>
    /\ UNCHANGED <<pushHand, toolFrame, handUsed, cmd, moving, handVel, spc, nstops, upc>>

\* shake_joint=4 (point 1) resp. shake_joint=6 (point 6) in findToolTip, then
\* moveTool: iGaze->restoreContext(0); if (!interrupting)
MtStart ==
    /\ pc = "mtStart"
    /\ shake_joint' = ShakeJointOf(loc.pose)
    /\ log' = Append(log, Call("G", "restoreContext", 0, 0))
    /\ pc' = IF ~interrupting THEN "mtGo" ELSE "mtSetup"
    /\ loc' = [loc EXCEPT !.seen = @ \/ interrupting]
    /\ UNCHANGED <<interrupting, pushHand, toolFrame, iCartCtrl, handUsed, cmd, reply,
                   ctx, moving, handVel, solver, spc, nstops, upc>>

\* setTrackingMode(true); lookAtFixationPoint; goToPoseSync(xd,od,1.0)
MtGo ==
    /\ pc = "mtGo"
    /\ log' = log \o << Call("G", "setTrackingMode", 1, 0),
                        Call("G", "lookAtFixationPoint", loc.pose, 0),
                        Call(iCartCtrl, "goToPoseSync", loc.pose, Second) >>
    /\ moving' = [moving EXCEPT ![iCartCtrl] = TRUE]
    /\ pc' = "mtWait"
    /\ UNCHANGED <<interrupting, pushHand, toolFrame, iCartCtrl, handUsed, shake_joint,
                   cmd, reply, loc, ctx, handVel, solver, spc, nstops, upc>>

\* the timeout handed to moveTool's waitMotionDone(0.1): none is given, and
\* the default 0.0 of ICartesianControl::waitMotionDone means no timeout
MtTimeout == 0

\* whether a waitMotionDone with this timeout can return now
WaitReturns(timeout, stillMoving) == timeout > 0 \/ ~stillMoving

\* iCartCtrl->waitMotionDone(0.1)
MtWait ==
    /\ pc = "mtWait"
    /\ WaitReturns(MtTimeout, moving[iCartCtrl])
    /\ log' = Append(log, Call(iCartCtrl, "waitMotionDone", MtTimeout,
                               IF moving[iCartCtrl] THEN 0 ELSE 1))
    /\ pc' = "mtSetup"
    /\ UNCHANGED <<interrupting, pushHand, toolFrame, iCartCtrl, handUsed, shake_joint,
                   cmd, reply, loc, ctx, moving, handVel, solver, spc, nstops, upc>>

\* setSaccadesStatus(false); setNeckTrajTime; setEyesTrajTime;
\* setControlMode(shake_joint,VOCAB_CM_VELOCITY); handUsed=arm; cnt=0; done=false
MtSetup ==
    /\ pc = "mtSetup"
    /\ log' = log \o << Call("G", "setSaccadesStatus", 0, 0),
                        Call("G", "setNeckTrajTime", 0, 0),
                        Call("G", "setEyesTrajTime", 0, 0),
                        Call(HandOf(iCartCtrl), "setControlMode", shake_joint, 0) >>
    /\ handUsed' = cmd.arm
    /\ loc' = [loc EXCEPT !.cnt = 0, !.sum = 0, !.done = FALSE]
    /\ pc' = "conv"
    /\ UNCHANGED <<interrupting, pushHand, toolFrame, iCartCtrl, shake_joint, cmd, reply,
                   ctx, moving, handVel, solver, spc, nstops, upc>>

\* a variant of EnoughSamples that takes any non-empty window
EnoughSamplesAny(cnt) == cnt > 0

\* if (cnt>20)
EnoughSamples(cnt) == cnt > 20

\* a variant of LoopGuard that does not look at the flag
LoopGuardBlind(flag, more) == more

\* while (!interrupting && ...): whether the body runs once more
LoopGuard(flag, more) == ~flag /\ more

\* done=fabs(pxCum[1]/cnt-120)<30.0, for cnt > 0
Converged(sum, cnt) == Abs(sum - 120 * cnt) < 30 * cnt

\* one iteration of while (!interrupting && !done): an optional sample
\* (px[1] = y + 50, lookAtMonoPixel), then the test of the 3 s window.
\* The calls of the loop bodies are not appended to the log.
ConvIter ==
    /\ pc = "conv"
    /\ LoopGuard(interrupting, ~loc.done)
    /\ \E y \in FeedY \cup {-1}, elapsed \in BOOLEAN :
        LET got == y # -1
            cnt1 == IF got THEN loc.cnt + 1 ELSE loc.cnt
            sum1 == IF got THEN loc.sum + y + 50 ELSE loc.sum
        IN /\ cnt1 <= MaxCnt
           /\ got /\ loc.cnt > 0 => (y + 50) * loc.cnt = loc.sum
           /\ loc' = IF elapsed
                     THEN [loc EXCEPT !.cnt = 0, !.sum = 0,
                             !.done = IF EnoughSamples(cnt1) THEN Converged(sum1, cnt1)
                                                   ELSE loc.done]
                     ELSE [loc EXCEPT !.cnt = cnt1, !.sum = sum1]
    /\ UNCHANGED <<interrupting, pushHand, toolFrame, iCartCtrl, handUsed, shake_joint,
                   pc, cmd, reply, log, ctx, moving, handVel, solver, spc, nstops, upc>>

\* the loop ends; enable and num to the solver: curItems
ConvExit ==
    /\ pc = "conv"
    /\ ~LoopGuard(interrupting, ~loc.done)
    /\ log' = Append(log, Call("S", "enable", loc.pose, 0))
    /\ solver' = [solver EXCEPT !.enabled = TRUE]
    /\ loc' = [loc EXCEPT !.cur = solver.items, !.nItems = 0,
                          !.seen = @ \/ interrupting]
    /\ pc' = "collect"
    /\ UNCHANGED <<interrupting, pushHand, toolFrame, iCartCtrl, handUsed, shake_joint,
                   cmd, reply, ctx, moving, handVel, spc, nstops, upc>>

\* one iteration of while (!interrupting && (nItems<curItems+maxItems)):
\* num to the solver, an optional lookAtMonoPixel
CollectIter ==
    /\ pc = "collect"
    /\ LoopGuard(interrupting, loc.nItems < loc.cur + Quota(loc.pose))
    /\ loc' = [loc EXCEPT !.nItems = solver.items]
    /\ UNCHANGED <<interrupting, pushHand, toolFrame, iCartCtrl, handUsed, shake_joint,
                   pc, cmd, reply, log, ctx, moving, handVel, solver, spc, nstops, upc>>

\* stopHand(hand): ivel->stop(4)
StoppedHand(vel, hand) == [vel EXCEPT ![hand] = @ \ {4}]

\* the loop ends; disable to the solver; handUsed="null"; stopHand(arm).
\* loc.full counts the poses whose loop ended with the quota collected,
\* loc.seen records that a test of interrupting found it set.
CollectExit ==
    /\ pc = "collect"
    /\ ~LoopGuard(interrupting, loc.nItems < loc.cur + Quota(loc.pose))
    /\ log' = log \o << Call("S", "disable", loc.pose, 0),
                        Call(HandOf(iCartCtrl), "stop", 4, 0) >>
    /\ solver' = [solver EXCEPT !.enabled = FALSE]
    /\ handUsed' = "null"
    /\ handVel' = StoppedHand(handVel, cmd.arm)
    /\ LET full1 == IF loc.nItems < loc.cur + Quota(loc.pose) THEN loc.full
                                                                ELSE loc.full + 1
       IN IF loc.pose < NPoses
          THEN /\ loc' = [loc EXCEPT !.pose = @ + 1, !.full = full1,
                                      !.seen = @ \/ interrupting]
               /\ pc' = "mtStart"
          ELSE /\ loc' = [loc EXCEPT !.full = full1, !.seen = @ \/ interrupting]
               /\ pc' = "findSolve"
    /\ UNCHANGED <<interrupting, pushHand, toolFrame, iCartCtrl, shake_joint, cmd, reply,
                   ctx, moving, spc, nstops, upc>>

\* find to the solver (its sample count is not read again before the next
\* clear, and is dropped here); restoreContext/deleteContext on the arm and
\* the gaze;
\* back in respond: reply.addVocab(ack); reply.append(solution.tail())
FindSolve ==
    /\ pc = "findSolve"
    /\ \E sol \in SolverReplies :
        /\ reply' = FindReply(TRUE, sol)
        /\ log' = log \o << Call("S", "find", 0, sol),
                            Call(iCartCtrl, "restoreContext", loc.tok, 0),
                            Call(iCartCtrl, "deleteContext", loc.tok, 0),
                            Call("G", "restoreContext", loc.gtok, 0),
                            Call("G", "deleteContext", loc.gtok, 0) >>
    /\ solver' = [solver EXCEPT !.items = 0]
    /\ ctx' = [ctx EXCEPT ![iCartCtrl] = DeleteContext(@, loc.tok),
                          !["G"] = DeleteContext(@, loc.gtok)]
    /\ pc' = "end"
    /\ UNCHANGED <<interrupting, pushHand, toolFrame, iCartCtrl, handUsed, shake_joint,
                   cmd, loc, moving, handVel, spc, nstops, upc>>


(***************************************************************************)
(* The endpoints                                                           *)
(***************************************************************************)
\* an arm controller finishes the motion it was given
MotionDone ==
    /\ \E a \in {"L", "R"} :
        /\ moving[a]
        /\ moving' = [moving EXCEPT ![a] = FALSE]
    /\ UNCHANGED <<interrupting, pushHand, toolFrame, iCartCtrl, handUsed, shake_joint,
                   pc, cmd, reply, log, loc, ctx, handVel, solver, spc, nstops, upc>>

\* samples the solver may take in beyond the quota of the pose before the
\* worker disables it
MaxOver == 0

\* the enabled solver takes in samples, in bursts of 24 and 1
SolverCollect ==
    /\ solver.enabled
    /\ solver.items < loc.cur + Quota(loc.pose) + MaxOver
    /\ solver' = [solver EXCEPT
                    !.items = IF solver.items % 25 = 24 THEN @ + 1 ELSE @ + 24]
    /\ UNCHANGED <<interrupting, pushHand, toolFrame, iCartCtrl, handUsed, shake_joint,
                   pc, cmd, reply, log, loc, ctx, moving, handVel, spc, nstops, upc>>

(***************************************************************************)
(* The stop thread: read -> interruptModule                                *)
(***************************************************************************)
\* interrupting=true
StopFlag ==
    /\ spc = "idle"
    /\ nstops < MaxStops
    /\ nstops' = nstops + 1
    /\ interrupting' = TRUE
    /\ spc' = "flagged"
    /\ UNCHANGED <<pushHand, toolFrame, iCartCtrl, handUsed, shake_joint, pc, cmd, reply,
                   log, loc, ctx, moving, handVel, solver, upc>>

\* iGaze->stopControl(); iCartCtrlL->stopControl(); iCartCtrlR->stopControl()
StopControl ==
    /\ spc = "flagged"
    /\ moving' = [a \in {"L", "R"} |-> FALSE]
    /\ spc' = "stopped"
    /\ UNCHANGED <<interrupting, pushHand, toolFrame, iCartCtrl, handUsed, shake_joint,
                   pc, cmd, reply, log, loc, ctx, handVel, solver, nstops, upc>>

\* if (handUsed!="null") { stopHand("left"); stopHand("right"); } return
StopHands ==
    /\ spc = "stopped"
    /\ handVel' = IF handUsed # "null"
                  THEN StoppedHand(StoppedHand(handVel, "left"), "right")
                  ELSE handVel
    /\ spc' = "idle"
    /\ UNCHANGED <<interrupting, pushHand, toolFrame, iCartCtrl, handUsed, shake_joint,
                   pc, cmd, reply, log, loc, ctx, moving, solver, nstops, upc>>

(***************************************************************************)
(* The periodic updater: updateModule -> shakeHand                         *)
(***************************************************************************)
\* if (!interrupting && ...
UpdFlag ==
    /\ upc = "idle"
    /\ upc' = IF ~interrupting THEN "hand" ELSE "idle"
    /\ UNCHANGED <<interrupting, pushHand, toolFrame, iCartCtrl, handUsed, shake_joint,
                   pc, cmd, reply, log, loc, ctx, moving, handVel, solver, spc, nstops>>

\* ... (handUsed!="null"))
UpdHand ==
    /\ upc = "hand"
    /\ upc' = IF handUsed # "null" THEN "shake" ELSE "idle"
    /\ UNCHANGED <<interrupting, pushHand, toolFrame, iCartCtrl, handUsed, shake_joint,
                   pc, cmd, reply, log, loc, ctx, moving, handVel, solver, spc, nstops>>

\* shakeHand: the hand by handUsed=="left", ivel->velocityMove(shake_joint,..)
UpdShake ==
    /\ upc = "shake"
    /\ LET hand == IF handUsed = "left" THEN "left" ELSE "right"
       IN handVel' = [handVel EXCEPT ![hand] = @ \cup {shake_joint}]
    /\ upc' = "idle"
    /\ UNCHANGED <<interrupting, pushHand, toolFrame, iCartCtrl, handUsed, shake_joint,
                   pc, cmd, reply, log, loc, ctx, moving, solver, spc, nstops>>

(***************************************************************************)
(* Specifications                                                          *)
(***************************************************************************)
Next ==
    \/ Accept \/ Reject \/ Default \/ ToolCmd
    \/ Begin \/ SegCheck \/ SegGo \/ SegWait \/ Simulate \/ Release \/ End
    \/ FindBegin \/ MtStart \/ MtGo \/ MtWait \/ MtSetup
    \/ ConvIter \/ ConvExit \/ CollectIter \/ CollectExit \/ FindSolve
    \/ MotionDone \/ SolverCollect
    \/ StopFlag \/ StopControl \/ StopHands

\* the worker, the stop thread and the endpoints
Spec == Init /\ [][Next]_vars

\* the worker and the stop thread together with the periodic updater
NextShake == Next \/ UpdFlag \/ UpdHand \/ UpdShake

SpecShake == Init /\ [][NextShake]_vars

(***************************************************************************)
(* Stop requests that reach the stop port only while respond is not        *)
(* running: the worker, the endpoints, and a stop thread whose read        *)
(* callback is entered with the worker idle                                *)
(***************************************************************************)
\* read -> interruptModule entered while no request is being served
IdleStop == pc = "idle" /\ StopFlag

NextIdle ==
    \/ Accept \/ Reject \/ Default \/ ToolCmd
    \/ Begin \/ SegCheck \/ SegGo \/ SegWait \/ Simulate \/ Release \/ End
    \/ FindBegin \/ MtStart \/ MtGo \/ MtWait \/ MtSetup
    \/ ConvIter \/ ConvExit \/ CollectIter \/ CollectExit \/ FindSolve
    \/ MotionDone \/ SolverCollect
    \/ IdleStop \/ StopControl \/ StopHands

SpecIdle == Init /\ [][NextIdle]_vars

(***************************************************************************)
(* The planning of push over a wider range of requests: the worker alone,  *)
(* serving push and tool attach/remove commands                            *)
(***************************************************************************)
\* approach angles, degrees
PlanThetas == {-360, -180, -90, -45, 0, 90, 135, 180, 270, 360}

\* radii, mm
PlanRadii == {0, 40, 110, 180, 250}

\* centroids, mm: on the sagittal plane and to its left
PlanCentroids == { <<-300, 0, 0>>, <<-300, -50, 0>> }

\* arm names given to tool attach
PlanHints == {"left", "right", "selectable"}

PlanCommands ==
    {MkCmd("push", "none", NeedParams("push"), "none", "none",
           [c |-> c, theta |-> th, radius |-> r, dist |-> 0, pose |-> 0]) :
        c \in PlanCentroids, th \in PlanThetas, r \in PlanRadii}
    \cup {MkCmd("tool", "attach", 4, h, "none", [NoArgs EXCEPT !.c = pt]) :
        h \in PlanHints, pt \in ToolPoints}
    \cup {MkCmd("tool", "remove", 0, "none", "none", NoArgs)}

AcceptPlan == AcceptFrom(PlanCommands)

NextPlan ==
    \/ AcceptPlan \/ ToolCmd
    \/ Begin \/ SegCheck \/ SegGo \/ SegWait \/ Release \/ End
    \/ MotionDone

SpecPlan == Init /\ [][NextPlan]_vars

(***************************************************************************)
(* find alone, with the stop thread and the endpoints, under the           *)
(* scheduling the program relies on: the worker thread keeps running, the  *)
(* stop thread finishes interruptModule, the arm controller ends a motion  *)
(* it was given and the solver keeps taking samples while enabled          *)
(***************************************************************************)
FindCommands ==
    {MkCmd("find", "none", 2, ae[1], ae[2], NoArgs) : ae \in FindArgs}

AcceptFind == AcceptFrom(FindCommands)

\* the steps of the worker inside respond
FindWorker ==
    \/ FindBegin \/ MtStart \/ MtGo \/ MtWait \/ MtSetup
    \/ ConvIter \/ ConvExit \/ CollectIter \/ CollectExit \/ FindSolve \/ End

NextFind ==
    \/ AcceptFind \/ FindWorker
    \/ MotionDone \/ SolverCollect
    \/ StopFlag \/ StopControl \/ StopHands

SpecFind ==
    /\ Init /\ [][NextFind]_vars
    /\ WF_vars(FindWorker)
    /\ WF_vars(StopControl \/ StopHands)
    /\ WF_vars(MotionDone)
    /\ WF_vars(SolverCollect)


(***************************************************************************)
(* The hand: find and one push, with the stop thread, the endpoints and    *)
(* the periodic updater                                                    *)
(***************************************************************************)
HandCommands ==
    FindCommands
    \cup {MkCmd("push", "none", NeedParams("push"), "none", "none",
                [c |-> <<-300, 100, 0>>, theta |-> 0, radius |-> 100,
                 dist |-> 0, pose |-> 0])}

AcceptHand == AcceptFrom(HandCommands)

NextHand ==
    \/ AcceptHand
    \/ Begin \/ SegCheck \/ SegGo \/ SegWait \/ Release \/ End
    \/ FindBegin \/ MtStart \/ MtGo \/ MtWait \/ MtSetup
    \/ ConvIter \/ ConvExit \/ CollectIter \/ CollectExit \/ FindSolve
    \/ MotionDone \/ SolverCollect
    \/ StopFlag \/ StopControl \/ StopHands
    \/ UpdFlag \/ UpdHand \/ UpdShake

SpecHand == Init /\ [][NextHand]_vars

(***************************************************************************)
(* Vocabulary of the properties                                            *)
(***************************************************************************)
\* the request was dispatched to push, push2, draw or draw2
IsMotion == cmd.verb \in ActionVerbs /\ cmd.n >= NeedParams(cmd.verb)

\* the request was dispatched to findToolTip with arm left or right
IsFind == cmd.verb = "find" /\ cmd.n >= 2 /\ cmd.arm \in {"left", "right"}

\* respond has produced the reply of cmd
Replied == cmd # NoCmd /\ pc \in {"end", "idle"}

\* positions of the log holding a given call
CallsOf(names) == {i \in DOMAIN log : log[i][2] \in names}

\* goToPoseSync of segment k is in the log
HasGo(k) == \E i \in CallsOf({"goToPoseSync"}) : log[i][3] = k

\* this step appends a goToPoseSync to the log
GoIssued ==
    /\ Len(log') > Len(log)
    /\ log'[Len(log')][2] = "goToPoseSync"

\* the request is one respond skips: payload too short, or a tool/toop
\* command without a known sub-command or with a short attach
Malformed ==
    \/ Dispatch(cmd) = "reject"
    \/ /\ cmd.verb \in {"tool", "toop"}
       /\ \/ cmd.sub \in {"none", "bogus"}
          \/ cmd.sub = "attach" /\ cmd.n < 4

(***************************************************************************)
(* C1.  Every configuration token stored by push, push2, draw, draw2 or    *)
(* find (arm token, for find also the gaze token) is restored and then     *)
(* deleted exactly once before the reply is produced, whatever the flag    *)
(* did; outside an action no stored token is outstanding.                  *)
(***************************************************************************)
C1_TokensReleased ==
    /\ pc \in {"idle", "end", "reject", "default", "tool", "begin", "findBegin",
               "crashed"}
          => \A e \in DOMAIN ctx : ctx[e] = {}
    /\ Replied /\ (IsMotion \/ IsFind) =>
          /\ CallsOf({"storeContext"}) # {}
          /\ \A i \in CallsOf({"storeContext"}) :
               \E j \in CallsOf({"restoreContext"}), k \in CallsOf({"deleteContext"}) :
                  /\ i < j /\ j < k
                  /\ log[j][1] = log[i][1] /\ log[j][3] = log[i][3]
                  /\ log[k][1] = log[i][1] /\ log[k][3] = log[i][3]
                  /\ \A m \in CallsOf({"restoreContext", "deleteContext"}) \ {j, k} :
                        ~(log[m][1] = log[i][1] /\ log[m][3] = log[i][3])

\* a find cancelled by a stop request has answered
C1_Witness ==
    /\ pc = "idle" /\ IsFind /\ loc.seen /\ loc.full < NPoses
    /\ Len(reply) >= 1
    /\ Cardinality(CallsOf({"storeContext"})) = 2

(***************************************************************************)
(* C2.  In push, once the flag is set while the worker is between the      *)
(* issue of segment 2 and the test guarding segment 3 (or any later test), *)
(* the worker only skips: it reaches the release of the token without      *)
(* issuing a goToPoseSync or waitMotionDone of segment 3 or 4.             *)
(***************************************************************************)
C2_FlaggedAfterSeg2 ==
    /\ Fn(cmd) = "push" /\ interrupting
    /\ \/ pc = "segWait" /\ loc.seg = 2
       \/ pc = "segCheck" /\ loc.seg \in {3, 4}

C2_NoSegmentAfterCancel ==
    [][C2_FlaggedAfterSeg2 =>
          /\ C2_FlaggedAfterSeg2' \/ pc' = "release"
          /\ log' # log => pc = "segWait" /\ loc.seg = 2
                           /\ log' = Append(log, log'[Len(log')])
                           /\ log'[Len(log')][2] = "waitMotionDone"]_vars

\* a push cancelled after segment 2 has skipped segments 3 and 4
C2_Witness ==
    /\ Fn(cmd) = "push" /\ pc = "release" /\ interrupting
    /\ HasGo(1) /\ HasGo(2) /\ ~HasGo(3) /\ ~HasGo(4)

(***************************************************************************)
(* C3.  The flag, once set by a stop request, is cleared only when the     *)
(* next accepted action begins: not at the end of a command, nor by a      *)
(* non-action command.                                                     *)
(***************************************************************************)
C3_ClearedOnlyAtActionStart ==
    [][interrupting /\ ~interrupting' =>
          pc = "idle" /\ pc' \in {"begin", "findBegin"}]_vars

(***************************************************************************)
(* C4.  Once interruptModule has set the flag and issued stopControl to    *)
(* the gaze and both arms, the action in flight issues no further          *)
(* goToPoseSync, in every interleaving.                                    *)
(***************************************************************************)
C4_NoMotionAfterStop ==
    [][interrupting /\ spc \in {"stopped", "idle"} => ~GoIssued]_vars

(***************************************************************************)
(* C5.  An action (push, push2, draw, draw2, find with arm left/right)     *)
(* that observed the flag still replies ack, never nack.                   *)
(***************************************************************************)
C5_CancelledRepliesAck ==
    Replied /\ (IsMotion \/ IsFind) /\ loc.seen =>
        Len(reply) >= 1 /\ reply[1] = "ack"

\* a find cancelled before its six poses were done has answered, the solver
\* having given no dimensions
C5_Witness ==
    /\ pc = "idle" /\ IsFind /\ loc.seen /\ loc.full < NPoses
    /\ reply = <<"ack">>

(***************************************************************************)
(* C6.  If a waitMotionDone of push, push2, draw or draw2 returns false    *)
(* (timeout), no further segment is issued and the reply is nack.          *)
(***************************************************************************)
C6_TimeoutAborts ==
    IsMotion =>
        \A i \in CallsOf({"waitMotionDone"}) :
            log[i][4] = 0 =>
                /\ \A j \in CallsOf({"goToPoseSync"}) : j < i
                /\ Replied => reply = <<"nack">>

(***************************************************************************)
(* C7.  Every wait for motion completion of push, push2, draw, draw2 and   *)
(* of the exploration poses of find carries a finite timeout, so that it   *)
(* returns even if the endpoint never reports the motion done.             *)
(***************************************************************************)
C7_WaitsBounded ==
    /\ \A i \in CallsOf({"waitMotionDone"}) : log[i][3] > 0
    /\ pc = "segWait" => WaitReturns(SegTimeout(Fn(cmd), loc.seg), moving[iCartCtrl])
    /\ pc = "mtWait" => WaitReturns(MtTimeout, moving[iCartCtrl])

(***************************************************************************)
(* C8.  A request with insufficient or malformed fields is rejected before *)
(* planning: no endpoint call, tool frame and arm hint unchanged, and the  *)
(* reply is nack.                                                          *)
(***************************************************************************)
C8_MalformedNack ==
    [][Malformed /\ pc \in {"reject", "tool"} =>
          /\ log' = <<>>
          /\ toolFrame' = toolFrame /\ pushHand' = pushHand
          /\ ctx' = ctx /\ moving' = moving /\ solver' = solver
          /\ pc' = "idle" => reply' = <<"nack">>]_vars

(***************************************************************************)
(* C9.  A push, push2, draw or draw2 request whose radius is <= 0 gets a   *)
(* failure reply and causes no endpoint call.                              *)
(***************************************************************************)
C9_RadiusValidated ==
    IsMotion /\ cmd.radius <= 0 =>
        /\ log = <<>>
        /\ Replied => reply = <<"nack">>

(***************************************************************************)
(* C10.  A find cancelled before all six exploration poses collected their *)
(* quota returns no dimension values in its reply.                         *)
(***************************************************************************)
C10_NoPartialResult ==
    Replied /\ IsFind /\ loc.full < NPoses => Len(reply) <= 1

(***************************************************************************)
(* Vocabulary of the planning properties                                   *)
(***************************************************************************)
\* push has chosen its arm and its target and has not returned to a new
\* command
PushPlanned ==
    /\ cmd.verb = "push" /\ cmd.n >= NeedParams("push")
    /\ pc \in {"segCheck", "segGo", "segWait", "release", "end", "idle"}

\* world-frame homogeneous matrix of candidate k of the push in hand
CandOf(k) == PushCand(k, FALSE, cmd.c, cmd.theta, cmd.radius, toolFrame)

\* _theta of the push in hand
ThetaOf == NormTheta(cmd.theta)

\* durations given to the goToPoseSync of the contact segment
ContactTimes == {log[i][4] : i \in {j \in CallsOf({"goToPoseSync"}) : log[j][3] = 3}}

(***************************************************************************)
(* C11.  In push with the hint "selectable" the right arm is selected iff  *)
(* the y coordinate of candidate 1's world-frame position is >= 0 and the  *)
(* left arm iff it is < 0; with the hint left or right that arm is used    *)
(* whatever the geometry.                                                  *)
(***************************************************************************)
C11_ArmSelection ==
    PushPlanned =>
        /\ pushHand = "selectable" =>
              /\ iCartCtrl = "R" <=> CandOf(1)[2][4] >= 0
              /\ iCartCtrl = "L" <=> CandOf(1)[2][4] < 0
        /\ pushHand = "left" => iCartCtrl = "L"
        /\ pushHand = "right" => iCartCtrl = "R"

\* the right arm is selected for a centroid on the left, the candidate being
\* on the right
C11_Witness ==
    /\ PushPlanned /\ pushHand = "selectable"
    /\ cmd.c[2] < 0 /\ CandOf(1)[2][4] >= 0 /\ iCartCtrl = "R"
    /\ HasGo(1)

(***************************************************************************)
(* C12.  In push, when _theta is strictly within 45 degrees of +90 or of   *)
(* -90 the candidate is fixed by the arm alone, whatever the two residuals *)
(* of askForPose: near +90 the right arm takes candidate 1 and the left    *)
(* arm candidate 2, near -90 the other way round.                          *)
(***************************************************************************)
C12_SingularityForcesCandidate ==
    PushPlanned /\ (SingularPlus(ThetaOf) \/ SingularMinus(ThetaOf)) =>
        loc.cand = IF (iCartCtrl = "R") <=> SingularPlus(ThetaOf) THEN 1 ELSE 2

\* candidate 2 is taken although the residual of candidate 1 is the smaller
C12_Witness ==
    /\ PushPlanned /\ SingularMinus(ThetaOf)
    /\ iCartCtrl = "R" /\ loc.d1 < loc.d2 /\ loc.cand = 2

(***************************************************************************)
(* C13.  In push the epsilon variant is the target exactly when (right     *)
(* arm, _theta < 0, candidate 2 chosen) or (left arm, _theta < 0,          *)
(* candidate 1 chosen); otherwise the primary candidate is the target; the *)
(* variant is always that of the chosen candidate.                         *)
(***************************************************************************)
C13_EpsilonRule ==
    PushPlanned =>
        /\ loc.eps <=> \/ iCartCtrl = "R" /\ ThetaOf < 0 /\ loc.cand = 2
                       \/ iCartCtrl = "L" /\ ThetaOf < 0 /\ loc.cand = 1
        /\ loc.tgt = loc.cand

\* the left arm was sent to the epsilon variant of candidate 1
C13_Witness ==
    /\ PushPlanned /\ iCartCtrl = "L" /\ loc.cand = 1 /\ loc.eps
    /\ HasGo(2)

(***************************************************************************)
(* C14.  For a given angle bucket and arm hint the duration of the contact *)
(* segment of push lies in [tmin, tmax], is tmin for radius <= 0.04, tmax  *)
(* for radius >= 0.18, and is non-decreasing in the radius.                *)
(***************************************************************************)
C14_TrajTimeMonotone ==
    PushPlanned =>
        \A t \in ContactTimes :
            /\ PushTmin(cmd.theta, pushHand) <= t
            /\ t <= PushTmax(cmd.theta, pushHand)
            /\ cmd.radius <= 40 => t = PushTmin(cmd.theta, pushHand)
            /\ cmd.radius >= 180 => t = PushTmax(cmd.theta, pushHand)
            /\ \A r \in PlanRadii :
                  /\ r >= cmd.radius => PushTrajTime(cmd.theta, r, pushHand) >= t
                  /\ r <= cmd.radius => PushTrajTime(cmd.theta, r, pushHand) <= t

\* a contact segment strictly between the bounds was issued
C14_Witness ==
    /\ PushPlanned /\ cmd.radius = 110
    /\ \E t \in ContactTimes :
          PushTmin(cmd.theta, pushHand) < t /\ t < PushTmax(cmd.theta, pushHand)

(***************************************************************************)
(* C15.  A push executed while a tool is attached uses the bounds tmin and *)
(* tmax of the contact segment scaled by 1.3, and a push executed with no  *)
(* tool attached the unscaled ones, after any sequence of attach/remove.   *)
(***************************************************************************)
\* the last tool-mutating command was an attach: every tip of the model
\* gives a frame other than the identity
ToolAttached == toolFrame # Eye4

C15_ToolScaling ==
    PushPlanned =>
        LET k == IF ToolAttached THEN 13 ELSE 10
            lo == (PushTmin(cmd.theta, "selectable") * k) \div 10
            hi == (PushTmax(cmd.theta, "selectable") * k) \div 10
        IN  \A t \in ContactTimes :
                /\ lo <= t /\ t <= hi
                /\ cmd.radius <= PushRmin => t = lo
                /\ cmd.radius >= PushRmax => t = hi

(***************************************************************************)
(* C16.  For tool and toop alike: a well-formed attach stores the arm name *)
(* and the tip (x,y,z) and get replies ack with the stored arm name and    *)
(* tip, so that attach followed by get returns what was attached; remove   *)
(* stores "selectable" and the identity frame, so that remove followed by  *)
(* get returns "selectable" and (0,0,0).                                   *)
(***************************************************************************)
\* translation of a frame
Tip(F) == <<F[1][4], F[2][4], F[3][4]>>

C16_AttachGetRoundTrip ==
    [][/\ pc = "tool" /\ pc' = "idle" =>
            /\ cmd.sub = "attach" /\ cmd.n >= 4 =>
                  /\ pushHand' = cmd.arm
                  /\ Tip(toolFrame') = cmd.c
                  /\ reply' = <<"ack">>
            /\ cmd.sub = "get" =>
                  /\ reply' = <<"ack", pushHand>> \o Tip(toolFrame)
                  /\ pushHand = "selectable" /\ toolFrame = Eye4
                        => reply' = <<"ack", "selectable", 0, 0, 0>>
            /\ cmd.sub = "remove" =>
                  /\ pushHand' = "selectable"
                  /\ toolFrame' = Eye4
                  /\ reply' = <<"ack">>
       /\ pc = "idle" /\ pc' = "tool" /\ cmd'.sub = "get" =>
            /\ pushHand' = pushHand /\ toolFrame' = toolFrame
            /\ cmd.sub = "attach" /\ cmd.n >= 4 /\ cmd.verb \in {"tool", "toop"} =>
                  pushHand = cmd.arm /\ Tip(toolFrame) = cmd.c
            /\ cmd.sub = "remove" /\ cmd.verb \in {"tool", "toop"} =>
                  pushHand = "selectable" /\ toolFrame = Eye4]_vars

\* a get has answered with the arm and the tip of the attach before it
C16_Witness ==
    /\ pc = "idle" /\ cmd.verb = "tool" /\ cmd.sub = "get"
    /\ reply = <<"ack", "left", 0, 100, 50>>

(***************************************************************************)
(* C17.  The tool frame and the arm hint change only in a well-formed      *)
(* tool/toop attach or remove: the actions, find, tool get, a stop request *)
(* and every rejected command leave both as they are.                      *)
(***************************************************************************)
C17_OnlyAttachRemoveMutate ==
    [][pushHand' # pushHand \/ toolFrame' # toolFrame =>
          /\ pc = "tool" /\ cmd.verb \in {"tool", "toop"}
          /\ \/ cmd.sub = "remove"
             \/ cmd.sub = "attach" /\ cmd.n >= 4]_vars

\* a find was cancelled by a stop request and answered, the tool still
\* attached
C17_Witness ==
    /\ pc = "idle" /\ cmd.verb = "find" /\ loc.seen /\ Len(reply) >= 1
    /\ pushHand = "left" /\ Tip(toolFrame) = <<0, 100, 50>>

(***************************************************************************)
(* C18.  In push with a centroid of y = 0 and the identity tool frame the  *)
(* world-frame positions of candidates 1 and 2 are mirror images about the *)
(* sagittal plane: same x and z, opposite y.                               *)
(***************************************************************************)
C18_CandidatesMirrored ==
    PushPlanned /\ cmd.c[2] = 0 /\ toolFrame = Eye4 =>
        /\ CandOf(1)[1][4] = CandOf(2)[1][4]
        /\ CandOf(1)[3][4] = CandOf(2)[3][4]
        /\ CandOf(1)[2][4] = -CandOf(2)[2][4]

(***************************************************************************)
(* C19.  A simulated draw (vdra, vdrp) issues no goToPoseSync and no       *)
(* waitMotionDone whatever the flag, asks for exactly two poses and        *)
(* replies ack and one score; an executed draw replies ack alone.          *)
(***************************************************************************)
C19_SimulationIsMotionless ==
    /\ IsMotion /\ cmd.verb \in {"vdra", "vdrp"} =>
          /\ CallsOf({"goToPoseSync", "waitMotionDone"}) = {}
          /\ Replied =>
                /\ Cardinality(CallsOf({"askForPose"})) = 2
                /\ Len(reply) = 2 /\ reply[1] = "ack" /\ reply[2] = loc.res
    /\ IsMotion /\ cmd.verb \in {"draw", "drap"} /\ Replied => reply = <<"ack">>

\* a simulated draw2 has answered while the flag was set
C19_Witness ==
    /\ pc = "end" /\ cmd.verb = "vdrp" /\ IsMotion /\ interrupting
    /\ Len(reply) = 2

(***************************************************************************)
(* C20.  In both draw and draw2 the score of a simulation is the sum of    *)
(* the residuals of the two waypoints plus 10.0 exactly when the achieved  *)
(* position of waypoint 1 or of waypoint 2 has a norm below 0.15.          *)
(***************************************************************************)
C20_QualityScore ==
    IsMotion /\ Simulation(cmd) /\ pc \in {"release", "end", "idle"} =>
        loc.res = loc.d1 + loc.d2
                  + (IF loc.near1 \/ loc.near2 THEN 10 * One ELSE 0)

(***************************************************************************)
(* Vocabulary of the exploration properties                                *)
(***************************************************************************)
\* the worker is inside findToolTip or about to leave respond
FindRunning ==
    /\ IsFind
    /\ pc \in {"mtStart", "mtGo", "mtWait", "mtSetup", "conv", "collect",
               "findSolve", "end"}

\* this step is an iteration of the convergence loop
ConvStep == pc = "conv" /\ pc' = "conv" /\ loc' # loc

\* this step is an iteration of the collection loop
CollectStep == pc = "collect" /\ pc' = "collect" /\ loc' # loc

\* this step appends a call of the given name to the log
Appends(name) ==
    /\ Len(log') > Len(log)
    /\ \E i \in (Len(log) + 1)..Len(log') : log'[i][2] = name

\* the requests the solver has received, in order
SolverLog == SelectSeq(log, LAMBDA e : e[1] = "S")

(***************************************************************************)
(* C21.  The convergence loop reports convergence only at a window         *)
(* boundary at which more than 20 samples were accumulated (the sample of  *)
(* the boundary iteration included); a window of 20 samples or fewer never *)
(* does; at every boundary the sum and the count go back to zero; and an   *)
(* iteration runs only after the flag was tested and found clear.          *)
(***************************************************************************)
C21_ConvergenceOnlyAtFullWindow ==
    [][ConvStep =>
          /\ ~interrupting
          /\ loc'.done => loc.cnt >= 20 /\ loc'.cnt = 0 /\ loc'.sum = 0
          /\ loc'.cnt < loc.cnt \/ loc'.sum < loc.sum =>
                loc'.cnt = 0 /\ loc'.sum = 0]_vars

\* a window has closed with convergence
C21_Witness ==
    /\ IsFind /\ pc = "conv" /\ loc.done /\ loc.cnt = 0 /\ ~interrupting

(***************************************************************************)
(* C22.  At a window boundary with more than 20 samples the loop reports   *)
(* convergence iff the mean of the vertical coordinates read from the      *)
(* pixel feed in that window differs from 120 by less than 30.  (Within a  *)
(* window every sample of the model has the same coordinate, so the mean   *)
(* of the feed is loc.sum / loc.cnt less the 50 added to each sample.)     *)
(***************************************************************************)
C22_MeanOfFeedNear120 ==
    [][ConvStep /\ loc.cnt > 20 /\ loc'.cnt = 0 =>
          (loc'.done <=>
              Abs((loc.sum - 50 * loc.cnt) - 120 * loc.cnt) < 30 * loc.cnt)]_vars

(***************************************************************************)
(* C23.  The convergence loop and the collection loop test the flag before *)
(* every iteration: with the flag set no further iteration starts, and a   *)
(* find in which the flag is set goes on to return, even if the pixel feed *)
(* never converges (the solver and the endpoints answering their calls).   *)
(***************************************************************************)
C23_CancelTerminatesFind ==
    /\ [][ConvStep \/ CollectStep => ~interrupting]_vars
    /\ (FindRunning /\ interrupting) ~> (pc = "idle")

\* a find has returned after the flag ended a convergence loop that had
\* not converged
C23_Witness ==
    /\ pc = "idle" /\ IsFind /\ loc.seen /\ ~loc.done /\ loc.full = 0
    /\ Len(reply) >= 1

(***************************************************************************)
(* C24.  enable is sent to the solver only after the convergence loop of   *)
(* the pose has reported convergence; a pose whose loop ended without      *)
(* convergence never enables the collection.                               *)
(***************************************************************************)
C24_EnableOnlyAfterConvergence ==
    [][Appends("enable") => loc.done]_vars

(***************************************************************************)
(* C25.  Every enable is followed by exactly one disable before the next   *)
(* pose starts or find returns, also when cancelled; with the flag clear,  *)
(* disable is sent only once a polled count has reached the count read     *)
(* after enable plus the quota: 25 for poses 1 to 5, 50 for pose 6.        *)
(***************************************************************************)
\* the enable and disable requests of the log, in order
Exchanges == SelectSeq(log, LAMBDA e : e[1] = "S" /\ e[2] \in {"enable", "disable"})

C25_EnableDisablePaired ==
    /\ [](IsFind =>
            /\ \A i \in DOMAIN Exchanges :
                  /\ Exchanges[i][2] = IF i % 2 = 1 THEN "enable" ELSE "disable"
                  /\ Exchanges[i][3] = (i + 1) \div 2
            /\ pc # "collect" => Len(Exchanges) % 2 = 0
            /\ pc = "collect" => Len(Exchanges) = 2 * loc.pose - 1)
    /\ [][Appends("disable") /\ ~interrupting =>
            loc.nItems >= loc.cur + (IF loc.pose = 6 THEN 50 ELSE 25)]_vars

\* the six poses have collected their quota without a stop request
C25_Witness ==
    /\ IsFind /\ pc = "findSolve" /\ loc.full = NPoses /\ ~loc.seen
    /\ Len(Exchanges) = 2 * NPoses

(***************************************************************************)
(* C26.  For find with arm left or right the solver receives, in this      *)
(* order, clear, select(arm, eye), one enable ... disable exchange for     *)
(* each of the six poses in their order, then exactly one find after the   *)
(* sixth pose; the values of the reply are the answer to that request.     *)
(***************************************************************************)
C26_SolverProtocol ==
    Replied /\ IsFind =>
        /\ Len(SolverLog) = 2 * NPoses + 3
        /\ SolverLog[1][2] = "clear"
        /\ SolverLog[2] = <<"S", "select", cmd.arm, cmd.eye>>
        /\ \A p \in 1..NPoses :
              /\ SolverLog[2 * p + 1][2] = "enable" /\ SolverLog[2 * p + 1][3] = p
              /\ SolverLog[2 * p + 2][2] = "disable" /\ SolverLog[2 * p + 2][3] = p
        /\ SolverLog[2 * NPoses + 3][2] = "find"
        /\ reply = <<"ack">> \o Tail(SolverLog[2 * NPoses + 3][4])

\* a complete find has answered with the dimensions the solver gave
C26_Witness ==
    /\ pc = "idle" /\ IsFind /\ loc.full = NPoses
    /\ reply = <<"ack", 10, 20, 30>>

(***************************************************************************)
(* C27.  Push is periodic in theta: a push with theta and a push with      *)
(* theta + 360 k, everything else equal (centroid, radius, arm hint, tool  *)
(* frame, residuals of askForPose), select the same arm and the same       *)
(* candidate, send the same target and give the contact segment the same   *)
(* duration.  Stated on the push in hand against the plan the code makes   *)
(* for every other angle of the same class modulo 360.                     *)
(***************************************************************************)
C27_PushPeriodic ==
    PushPlanned =>
        \A th2 \in PlanThetas :
            (th2 - cmd.theta) % 360 = 0 =>
                /\ PushArm(cmd.c, th2, cmd.radius, pushHand, toolFrame) = iCartCtrl
                /\ PushChoice(th2, iCartCtrl, loc.d1, loc.d2) = loc.cand
                /\ PushTarget(th2, iCartCtrl, loc.cand) = <<loc.tgt, loc.eps>>
                /\ PushCand(loc.tgt, loc.eps, cmd.c, th2, cmd.radius, toolFrame)
                       = PushCand(loc.tgt, loc.eps, cmd.c, cmd.theta, cmd.radius, toolFrame)
                /\ \A t \in ContactTimes :
                       PushTrajTime(th2, cmd.radius, pushHand) = t

(***************************************************************************)
(* C28.  In draw the final orientation given to the two waypoints depends  *)
(* on the arm that executes: the rotation of the left arm differs from the *)
(* rotation of the right arm, and the one applied is that of the arm       *)
(* selected for the request in hand.                                       *)
(***************************************************************************)
\* draw has filled R and chosen its arm
DrawPlanned ==
    /\ IsMotion /\ Fn(cmd) = "draw"
    /\ pc \in {"sim", "segCheck", "segGo", "segWait", "release", "end"}

C28_DrawOrientationByArm ==
    DrawPlanned =>
        /\ loc.rot = DrawR(iCartCtrl)
        /\ \A other \in {"L", "R"} : other # iCartCtrl => DrawR(other) # loc.rot

(***************************************************************************)
(* C29.  In push, when _theta is not strictly within 45 degrees of +90 or  *)
(* of -90 (so also at exactly +-45, +-135, 0 and 180), the candidate is    *)
(* chosen by the two residuals of askForPose: candidate 1 iff its residual *)
(* is strictly the lower, candidate 2 otherwise, ties included.            *)
(***************************************************************************)
C29_ResidualChoice ==
    PushPlanned /\ ~SingularPlus(ThetaOf) /\ ~SingularMinus(ThetaOf) =>
        /\ loc.cand = 1 <=> loc.d1 < loc.d2
        /\ loc.cand = 2 <=> loc.d1 >= loc.d2

\* at exactly 135 degrees two equal residuals gave candidate 2, and the
\* approach was sent
C29_Witness ==
    /\ PushPlanned /\ cmd.theta = 135
    /\ loc.d1 = loc.d2 /\ loc.cand = 2
    /\ HasGo(2)

(***************************************************************************)
(* C30.  In every push, push2, draw and draw2 the goToPoseSync calls       *)
(* issued form a prefix of the fixed sequence of segments of the action    *)
(* (four for push and push2, three for draw and draw2): each segment is    *)
(* sent at most once, in order, never again, and none is sent once an      *)
(* earlier one of the same action was skipped.                             *)
(***************************************************************************)
\* the goToPoseSync entries of the log, in the order of issue
GoLog == SelectSeq(log, LAMBDA e : e[2] = "goToPoseSync")

\* the log is that of the action of cmd
ActionRan ==
    /\ IsMotion
    /\ pc \in {"sim", "segCheck", "segGo", "segWait", "release", "end", "idle"}

C30_SegmentsArePrefix ==
    ActionRan =>
        /\ Len(GoLog) <= NSegs(Fn(cmd))
        /\ \A i \in DOMAIN GoLog : GoLog[i][3] = i /\ GoLog[i][1] = iCartCtrl
        /\ loc.seen => Len(GoLog) < loc.seg /\ ~(pc \in {"segGo", "segWait"})

\* a push or push2 was cancelled during its first segment: the action is over
\* with one goToPoseSync in the log and three segments skipped
C30_Witness ==
    /\ ActionRan /\ pc = "end" /\ NSegs(Fn(cmd)) = 4
    /\ Len(GoLog) = 1 /\ loc.seen

(***************************************************************************)
(* C31.  Whatever the interleaving of a stop request with a push, push2,   *)
(* draw, draw2 or find in flight, at most one goToPoseSync is issued after *)
(* the flag was set, the one whose guard was evaluated before, and none    *)
(* after the worker's next evaluation of the flag.  Stated on the steps:   *)
(* a goToPoseSync issued with the flag set comes from a worker that had    *)
(* passed its guard and leaves it past the call; and the worker is never   *)
(* brought between a guard and its call, with the flag set, by a step of   *)
(* its own.                                                                *)
(***************************************************************************)
\* the worker has passed an if (!interrupting) and not yet made the call
Armed == pc \in {"segGo", "mtGo"}

C31_OneGoAfterFlag ==
    [][ /\ (Appends("goToPoseSync") /\ interrupting =>
               Armed /\ ~Armed' /\ interrupting')
        /\ (Armed' /\ interrupting' =>
               Armed /\ pc' = pc /\ log' = log /\ loc' = loc) ]_vars

\* the stop request set the flag between the guard and the call of the
\* approach segment
C31_Witness ==
    /\ IsMotion /\ pc = "segGo" /\ loc.seg = 2
    /\ interrupting /\ spc = "flagged"

(***************************************************************************)
(* C32.  A stop request that arrives while no action is in progress does   *)
(* not affect the next accepted action: when every stop request arrives    *)
(* with the worker idle, a push, push2, draw or draw2 that has returned    *)
(* has issued each of its segments, and a find its six motions.            *)
(***************************************************************************)
C32_IdleStopHarmless ==
    /\ (ActionRan /\ ~Simulation(cmd) /\ pc = "end" =>
            Len(GoLog) = NSegs(Fn(cmd)))
    /\ (IsFind /\ pc = "end" => Len(GoLog) = NPoses)

(***************************************************************************)
(* C33.  handUsed is "null" whenever no exploration pose is between the    *)
(* start of its convergence loop and the end of its collection phase: at   *)
(* startup, during every push and after every find, however it returned;   *)
(* and so the periodic updater sends a shake velocity command only during  *)
(* an exploration pose, and only after reading the flag as clear.          *)
(***************************************************************************)
\* an exploration pose is between the start of its convergence loop and the
\* end of its collection phase
InPose == IsFind /\ pc \in {"conv", "collect"}

\* this step is the velocityMove of shakeHand
ShakeStep == upc = "shake" /\ upc' = "idle"

C33_ShakeOnlyInPose ==
    /\ [](handUsed # "null" => InPose)
    /\ [][ShakeStep => InPose /\ handUsed # "null"]_vars

(***************************************************************************)
(* C34.  In every interleaving of the periodic updater with the worker and *)
(* the stop thread, no velocity command is sent to the shake joint after   *)
(* the hand stop that ends an exploration pose (handUsed set to "null",    *)
(* then stopHand) nor after the hand stop of a stop request: a hand that   *)
(* was stopped is not set moving again.                                    *)
(***************************************************************************)
\* interruptModule has run to its end and respond has not yet cleared the flag
StopServed == interrupting /\ spc = "idle"

C34_NoShakeAfterStop ==
    [][ShakeStep => handUsed # "null" /\ ~StopServed]_vars

(***************************************************************************)
(* C35.  For each of the six exploration poses the joint put in velocity   *)
(* mode and shaken during the pose (shake_joint: 4 for poses 1 to 5, 6 for *)
(* pose 6) is the joint that is stopped at the end of the pose and on a    *)
(* stop request, so that no shaken joint keeps a velocity command.         *)
(***************************************************************************)
\* this step is the stopHand that ends a pose
PoseStopStep == pc = "collect" /\ pc' # "collect"

\* this step is the two stopHand calls of interruptModule
StopHandsStep == spc = "stopped" /\ spc' = "idle" /\ handUsed # "null"

C35_StopsShakenJoint ==
    [][ /\ (PoseStopStep =>
               /\ \A i \in (Len(log) + 1)..Len(log') :
                     log'[i][2] = "stop" => log'[i][3] = shake_joint
               /\ shake_joint \notin handVel'[cmd.arm])
        /\ (StopHandsStep =>
               \A h \in {"left", "right"} : shake_joint \notin handVel'[h]) ]_vars

(***************************************************************************)
(* C36.  Every push, push2, draw and draw2 resolves iCartCtrl to the left  *)
(* or the right arm from the arm name of the request in hand before its    *)
(* first call on it, for every name tool attach can store, names other     *)
(* than left, right and selectable included: the arm used does not depend  *)
(* on what iCartCtrl held before, and is never an unset pointer.           *)
(***************************************************************************)
C36_ArmResolvedPerRequest ==
    /\ pc # "crashed"
    /\ ActionRan =>
          /\ iCartCtrl \in {"L", "R"}
          /\ \A cur \in {"L", "R", "unset"} :
                SelectArm(cmd, pushHand, toolFrame, cur) = iCartCtrl

(***************************************************************************)
(* C37.  In draw with the arm name "selectable" and the identity tool      *)
(* frame, the right arm is selected iff the y coordinate of the approach   *)
(* waypoint as sent to the endpoint, that is after it was brought back to  *)
(* the lateral offset of the centroid, is >= 0, and the left arm iff it is *)
(* < 0.                                                                    *)
(***************************************************************************)
C37_DrawArmBySentWaypoint ==
    DrawPlanned /\ pushHand = "selectable" /\ toolFrame = Eye4 =>
        /\ iCartCtrl = "R" <=> DrawSentY(cmd.c, cmd.theta, cmd.radius) >= 0
        /\ iCartCtrl = "L" <=> DrawSentY(cmd.c, cmd.theta, cmd.radius) < 0

(***************************************************************************)
(* C38.  In push, for every _theta strictly between -135 and -45 the pose  *)
(* sent is an epsilon variant, that of candidate 2 for the right arm and   *)
(* of candidate 1 for the left arm, whichever the arm and whatever the two *)
(* residuals of askForPose; for every _theta strictly between 45 and 135   *)
(* the epsilon variant is never used.                                      *)
(***************************************************************************)
C38_EpsilonInSingularBands ==
    /\ PushPlanned /\ SingularMinus(ThetaOf) =>
          /\ loc.eps
          /\ loc.tgt = IF iCartCtrl = "R" THEN 2 ELSE 1
    /\ PushPlanned /\ SingularPlus(ThetaOf) => ~loc.eps

\* at 270 degrees, that is _theta = -90, the right arm is sent to the epsilon
\* variant of candidate 2 although the residual of candidate 1 is the lower
C38_Witness ==
    /\ PushPlanned /\ cmd.theta = 270 /\ iCartCtrl = "R"
    /\ loc.d1 < loc.d2 /\ loc.tgt = 2 /\ loc.eps
    /\ HasGo(3)

(***************************************************************************)
(* C39.  A find whose arm is neither "left" nor "right" is answered nack   *)
(* and has no side effect: no context token is stored, no request goes to  *)
(* the solver, no gaze or motion command is issued, and handUsed and       *)
(* shake_joint are left as they were.                                      *)
(***************************************************************************)
\* the request in hand is a find with two parameters and an unknown arm
BadArmFind == cmd.verb = "find" /\ cmd.n >= 2 /\ cmd.arm \notin {"left", "right"}

C39_BadArmFindRejected ==
    /\ [](BadArmFind /\ Replied => reply = <<"nack">> /\ log = <<>>)
    /\ [][BadArmFind /\ pc = "findBegin" /\ pc' # "findBegin" =>
             /\ pc' = "idle" /\ reply' = <<"nack">>
             /\ UNCHANGED <<ctx, log, solver, moving, iCartCtrl, handUsed,
                            shake_joint, handVel>>]_vars

\* the find was refused after a complete find had left shake_joint at 6 and
\* the arm controller on the left arm
C39_Witness ==
    /\ BadArmFind /\ pc = "idle" /\ reply = <<"nack">>
    /\ shake_joint = 6 /\ iCartCtrl = "L"

=============================================================================
